---------------------------- MODULE Spec2Model ----------------------------
(***************************************************************************)
(* Model of alignment_tools/align_affine_2D.py:                            *)
(*   ImageControl    tone state per channel, zoom / pan viewport           *)
(*   ImageControlCP  control points placed on an ImageControl              *)
(*   AlignAffine2D   parametric / least-squares affine transform, overlay  *)
(*                                                                         *)
(* Numbers.  The tone widgets hold multiples of 1/Unit (Unit stands for    *)
(* 1.0).  The zoom is held in tenths (ZoomScale stands for 1.0), the       *)
(* arithmetic on it is exact rational arithmetic.  A QPoint holds two      *)
(* integers <<x, y>>.                                                      *)
(***************************************************************************)
EXTENDS Integers, Sequences, FiniteSets, TLC

VARIABLES
    \* ImageControl: tone state and the parameter widgets
    num_channels, state, contrast, brightness, gamma, min, max, channel,
    \* ImageControl: the shape of the bound image, and the shape of the image
    \* that image_transformed was computed from
    image, image_transformed,
    \* ImageControl: zoom and pan
    im_height, im_width, zoom, bottomleft, topright, center,
    \* ImageControlCP
    control_points,
    \* AlignAffine2D
    fixed_points, moving_points, table, moving_transformed, overlay,
    scale_x, scale_y, shear_x, shear_y, rotation, translate_x, translate_y,
    \* observation: last event handled and its outcome, ids removed so far
    ev, removed

toneVars  == <<num_channels, state, contrast, brightness, gamma, min, max, channel>>
imageVars == <<image, image_transformed>>
viewVars  == <<im_height, im_width, zoom, bottomleft, topright, center>>
cpVars    == <<control_points, removed>>
paramVars == <<scale_x, scale_y, shear_x, shear_y, rotation, translate_x, translate_y>>
alignVars == <<fixed_points, moving_points, table, moving_transformed, overlay>>
vars      == <<toneVars, imageVars, viewVars, cpVars, paramVars, alignVars, ev>>

---------------------------------------------------------------------------
(* Bounds *)

\* number of widget steps that make up 1.0
Unit == 2
\* largest channel count of a bound image in the tone specification
MaxChannels == 2

---------------------------------------------------------------------------
(* Arithmetic                                                              *)

abs(n) == IF n < 0 THEN -n ELSE n

\* greatest common divisor, b >= 0
RECURSIVE GCD(_, _)
GCD(a, b) == IF b = 0 THEN abs(a) ELSE GCD(b, a % b)

---------------------------------------------------------------------------
(* Tone state: ImageControl (and Enhance, whose handlers are the same)     *)

Channels(nc) == 0 .. (nc - 1)

\* values the user can give to the parameter widgets
ContrastVals   == {Unit, 2 * Unit}
BrightnessVals == {0, 1}
GammaVals      == {Unit, 2 * Unit}
Levels         == {0, Unit \div 2, Unit}

\* the state dictionary built in __init__ and in reset_transform
DefaultState(nc) ==
    [contrast   |-> [i \in Channels(nc) |-> Unit],
     brightness |-> [i \in Channels(nc) |-> 0],
     gamma      |-> [i \in Channels(nc) |-> Unit],
     min        |-> [i \in Channels(nc) |-> 0],
     max        |-> [i \in Channels(nc) |-> Unit]]

\* the tone part of an ImageControl as one value: g.state is self.state, the
\* other fields are the values shown by the widgets
Cur ==
    [state |-> state, contrast |-> contrast, brightness |-> brightness,
     gamma |-> gamma, min |-> min, max |-> max, channel |-> channel]

\* update_histogram: the widget values are written to the selected channel
update_histogram(g) ==
    LET w == g.channel IN
    [g EXCEPT !.state =
        [contrast   |-> [g.state.contrast   EXCEPT ![w] = g.contrast],
         brightness |-> [g.state.brightness EXCEPT ![w] = g.brightness],
         gamma      |-> [g.state.gamma      EXCEPT ![w] = g.gamma],
         min        |-> [g.state.min        EXCEPT ![w] = g.min],
         max        |-> [g.state.max        EXCEPT ![w] = g.max]]]

change_contrast(g)   == update_histogram(g)
change_brightness(g) == update_histogram(g)
change_gamma(g)      == update_histogram(g)

\* widget.setValue(v): valueChanged fires synchronously, and only when the
\* value changes
contrast_setValue(g, v) ==
    IF v = g.contrast THEN g ELSE change_contrast([g EXCEPT !.contrast = v])
brightness_setValue(g, v) ==
    IF v = g.brightness THEN g ELSE change_brightness([g EXCEPT !.brightness = v])
gamma_setValue(g, v) ==
    IF v = g.gamma THEN g ELSE change_gamma([g EXCEPT !.gamma = v])

RECURSIVE change_min(_)
min_setValue(g, v) ==
    IF v = g.min THEN g ELSE change_min([g EXCEPT !.min = v])
change_min(g) ==
    LET w == g.channel
        m == g.min
        M == g.max
    IN  IF m >= M
        THEN update_histogram(min_setValue(g, g.state.min[w]))
        ELSE update_histogram(g)

RECURSIVE change_max(_)
max_setValue(g, v) ==
    IF v = g.max THEN g ELSE change_max([g EXCEPT !.max = v])
\* change_max without the restoring branch
change_max_unguarded(g) == update_histogram(g)
change_max(g) ==
    LET w == g.channel
        m == g.min
        M == g.max
    IN  IF m >= M
        THEN update_histogram(max_setValue(g, g.state.max[w]))
        ELSE update_histogram(g)

\* change_channel: the new channel's stored values are pushed to the widgets,
\* one setValue after the other, each reading self.state as it is by then
change_channel(g) ==
    LET w  == g.channel
        g1 == contrast_setValue(g, g.state.contrast[w])
        g2 == brightness_setValue(g1, g1.state.brightness[w])
        g3 == gamma_setValue(g2, g2.state.gamma[w])
        g4 == min_setValue(g3, g3.state.min[w])
        g5 == max_setValue(g4, g4.state.max[w])
    IN  update_histogram(g5)

channel_setValue(g, c) ==
    IF c = g.channel THEN g ELSE change_channel([g EXCEPT !.channel = c])

\* auto_scale: m and M are the 5th and 99th percentile of the image
auto_scale(g, m, M) ==
    update_histogram(max_setValue(min_setValue(g, m), M))

\* the widgets reset, the state dictionary kept
reset_transform_widgets_only(g, nc) ==
    LET g1 == contrast_setValue(g, Unit)
        g2 == brightness_setValue(g1, 0)
        g3 == gamma_setValue(g2, Unit)
        g4 == min_setValue(g3, 0)
        g5 == max_setValue(g4, Unit)
    IN  update_histogram(g5)
reset_transform(g, nc) ==
    LET g0 == [g EXCEPT !.state = DefaultState(nc)]
        g1 == contrast_setValue(g0, Unit)
        g2 == brightness_setValue(g1, 0)
        g3 == gamma_setValue(g2, Unit)
        g4 == min_setValue(g3, 0)
        g5 == max_setValue(g4, Unit)
    IN  update_histogram(g5)

\* the tone variables after a handler returned g
ToneBecomes(g) ==
    /\ state' = g.state
    /\ contrast' = g.contrast
    /\ brightness' = g.brightness
    /\ gamma' = g.gamma
    /\ min' = g.min
    /\ max' = g.max
    /\ channel' = g.channel
    /\ UNCHANGED num_channels

Event(op, a, r) == [op |-> op, arg |-> a, result |-> r]

\* number of steps the sample values 0 .. 1 of an image are taken in
SampleSteps == 4

\* a sample value as <<numerator, denominator>> in lowest terms; <<0, 0>> is
\* nan, the 0 / 0 of numpy
Frac(n, d) ==
    IF d = 0 THEN <<0, 0>>
    ELSE LET g == GCD(abs(d), abs(n))
             sgn == IF d < 0 THEN -1 ELSE 1
         IN  <<sgn * (n \div g), sgn * (d \div g)>>

\* np.piecewise(I, [I < min, (I >= min) & (I <= max), I > max],
\*              [0, (x - min) / (max - min), 1]) on the sample k / SampleSteps:
\* the pieces are assigned in this order, a later one overwrites an earlier
Windowed(st, ch, k) ==
    LET x == k * Unit
        m == st.min[ch] * SampleSteps
        M == st.max[ch] * SampleSteps
    IN  IF x > M THEN <<1, 1>>
        ELSE IF x >= m THEN Frac(x - m, M - m)
        ELSE <<0, 1>>

\* the curve without the + 0.5
ToneCurve_no_offset(st, ch, u) ==
    LET e  == st.gamma[ch] \div Unit
        pn == u[1] ^ e
        pd == u[2] ^ e
        yn == st.contrast[ch] * (2 * pn - pd) + 2 * st.brightness[ch] * pd
        yd == 2 * Unit * pd
    IN  IF u[2] = 0 THEN <<0, 0>>
        ELSE IF yn < 0 THEN <<0, 1>>
        ELSE IF yn > yd THEN <<1, 1>>
        ELSE Frac(yn, yd)
\* np.clip(contrast * (I ** gamma - 0.5) + brightness + 0.5, 0, 1) on the
\* value u, for the whole-number gammas of GammaVals
ToneCurve(st, ch, u) ==
    LET e  == st.gamma[ch] \div Unit
        pn == u[1] ^ e
        pd == u[2] ^ e
        yn == st.contrast[ch] * (2 * pn - pd) + (2 * st.brightness[ch] + Unit) * pd
        yd == 2 * Unit * pd
    IN  IF u[2] = 0 THEN <<0, 0>>
        ELSE IF yn < 0 THEN <<0, 1>>
        ELSE IF yn > yd THEN <<1, 1>>
        ELSE Frac(yn, yd)

\* the value update_histogram shows for the sample k / SampleSteps of
\* channel ch
Transformed(st, ch, k) == ToneCurve(st, ch, Windowed(st, ch, k))

---------------------------------------------------------------------------
(* The bound image: ImageControl.set_image                                 *)

\* the image part of an ImageControl as one value; raised names the
\* exception set_image ended with
CurImage ==
    [num_channels |-> num_channels, image |-> image,
     image_transformed |-> image_transformed, raised |-> "none"]

\* image[:,:,np.newaxis]: an axis of length 1 put in the third place
newaxis(shape) == SubSeq(shape, 1, 2) \o <<1>> \o SubSeq(shape, 3, Len(shape))

\* set_image(image) for an array of the given shape; image.shape[2] of a
\* shape of one entry raises IndexError
set_image(im, shape) ==
    IF Len(shape) > 3
    THEN [im EXCEPT !.raised = "ValueError"]
    ELSE IF Len(shape) < 2
    THEN [im EXCEPT !.raised = "IndexError"]
    ELSE LET nc  == IF Len(shape) = 2 THEN 1 ELSE shape[3]
             img == IF nc = 1 THEN newaxis(shape) ELSE shape
         IN  [im EXCEPT !.num_channels = nc, !.image = img,
                        !.image_transformed = img]

---------------------------------------------------------------------------
(* Zoom and pan: ImageControl.on_mouse_wheel, on_mouse_move                *)

\* the zoom is stored in tenths: the wheel step 0.10 is 1, zoom 1.0 is 10
ZoomScale == 10
\* pixels panned by one mouse move on an edge
PanStep == 10
\* largest zoom (in tenths) the wheel action is taken to
MaxZoom == 15
\* image sides the viewport specification is built on
SmallSide == 15
LargeSide == 20

Maximum(a, b) == IF a >= b THEN a ELSE b
Minimum(a, b) == IF a <= b THEN a ELSE b

\* np.clip(a, lo, hi)
clip(a, lo, hi) == Minimum(Maximum(a, lo), hi)

\* int(n / d) of Python, d > 0: truncation towards zero.  Also the conversion
\* of a float argument of QPoint(x, y) to int.
int(n, d) == IF n >= 0 THEN n \div d ELSE -((-n) \div d)

\* truncation in the place of rounding
qRound_truncating(n, d) == n \div d
\* qRound(n / d) of Qt, d > 0: the nearest integer, halves rounded up
qRound(n, d) == (2 * n + d) \div (2 * d)

\* QPoint / zoom and QPoint * zoom, with zoom = z / ZoomScale
QPointDiv(p, z) == <<qRound(ZoomScale * p[1], z), qRound(ZoomScale * p[2], z)>>
QPointMul(p, z) == <<qRound(p[1] * z, ZoomScale), qRound(p[2] * z, ZoomScale)>>
QPointAdd(p, q) == <<p[1] + q[1], p[2] + q[2]>>
QPointSub(p, q) == <<p[1] - q[1], p[2] - q[2]>>

\* the viewport of an ImageControl as one value
CurView ==
    [zoom |-> zoom, bottomleft |-> bottomleft, topright |-> topright,
     center |-> center]

\* "setup zoom and pan" of __init__ for an image of H rows and W columns
InitView(H, W) ==
    [zoom |-> ZoomScale, bottomleft |-> <<0, 0>>, topright |-> <<H, W>>,
     center |-> <<H \div 2, W \div 2>>]

\* "store ROI": left, bottom are in tenths of a zoomed pixel, extents are
\* W and H; QPoint(left, bottom) / zoom and so on
StoreROI(v, z, left, bottom, H, W) ==
    LET right == left + ZoomScale * W
        top   == bottom + ZoomScale * H
    IN  [v EXCEPT
           !.zoom = z,
           !.bottomleft = QPointDiv(<<int(left, ZoomScale), int(bottom, ZoomScale)>>, z),
           !.topright   = QPointDiv(<<int(right, ZoomScale), int(top, ZoomScale)>>, z),
           !.center     = QPointDiv(<<int(left + right, 2 * ZoomScale),
                                      int(bottom + top, 2 * ZoomScale)>>, z)]

\* delta and delta // abs(delta)
WheelSign(delta) == IF delta = 0 THEN 0 ELSE delta \div abs(delta)

\* the zoom step floored at 0.1 in the place of 1.0
NewZoom_low_floor(z, delta) == Maximum(z + WheelSign(delta), 1)
\* max(self.zoom + 0.10 * sign, 1.0)
NewZoom(z, delta) == Maximum(z + WheelSign(delta), ZoomScale)

on_mouse_wheel(v, delta, H, W) ==
    LET z      == NewZoom(v.zoom, delta)
        \* np.clip(int(center * zoom - extent / 2), 0, extent * zoom - extent)
        left   == clip(ZoomScale * int(2 * v.center[1] * z - ZoomScale * W, 2 * ZoomScale),
                       0, W * z - ZoomScale * W)
        bottom == clip(ZoomScale * int(2 * v.center[2] * z - ZoomScale * H, 2 * ZoomScale),
                       0, H * z - ZoomScale * H)
    IN  StoreROI(v, z, left, bottom, H, W)

\* "pan on edges": the step chosen from the mouse position
PanDelta(x, extent) ==
    IF 20 * x < extent THEN -PanStep
    ELSE IF 10 * x > 9 * extent THEN PanStep
    ELSE 0

on_mouse_move(v, buttons, pos, H, W) ==
    IF buttons = "RightButton"
    THEN LET z      == v.zoom
             dx     == PanDelta(pos[1], W)
             dy     == PanDelta(pos[2], H)
             left   == clip(ZoomScale * int(v.bottomleft[1] * z + ZoomScale * dx, ZoomScale),
                            0, W * z - ZoomScale * W)
             bottom == clip(ZoomScale * int(v.bottomleft[2] * z + ZoomScale * dy, ZoomScale),
                            0, H * z - ZoomScale * H)
         IN  StoreROI(v, z, left, bottom, H, W)
    ELSE v

ViewBecomes(v) ==
    /\ zoom' = v.zoom
    /\ bottomleft' = v.bottomleft
    /\ topright' = v.topright
    /\ center' = v.center
    /\ UNCHANGED <<im_height, im_width>>

---------------------------------------------------------------------------
(* Control points: ImageControlCP                                          *)

\* most points a store is filled with, and largest id given out
MaxPoints == 3
MaxId == 3

\* l2(p), squared: the order of the distances, which is all that argmin
\* uses, is that of their squares
l2(p) == p[1] * p[1] + p[2] * p[2]

\* np.argmin: the first index (from 1 here) that holds the least value
argmin(d) == CHOOSE i \in 1 .. Len(d) :
                 /\ \A j \in 1 .. Len(d) : d[i] <= d[j]
                 /\ \A j \in 1 .. (i - 1) : d[j] > d[i]

pop(s, i) == SubSeq(s, 1, i - 1) \o SubSeq(s, i + 1, Len(s))

\* max(self.control_points, key=lambda x: x[1])[1]
MaxLabel(cps) == CHOOSE n \in {cps[i][2] : i \in 1 .. Len(cps)} :
                     \A i \in 1 .. Len(cps) : cps[i][2] <= n

\* numbering by the number of stored points
NextNum_by_count(cps) == Len(cps)
\* the id given to the next point
NextNum(cps) == IF cps = <<>> THEN 0 ELSE MaxLabel(cps) + 1

\* the position a click at display position pos is stored at
ClickToImage(pos, v) == QPointAdd(QPointDiv(pos, v.zoom), v.bottomleft)

\* the display position a stored point is painted at (paintEvent)
ImageToDisplay(p, v) == QPointMul(QPointSub(p, v.bottomleft), v.zoom)

\* the index removed by a shift + left click at pos
Closest(cps, pos) == argmin([i \in 1 .. Len(cps) |-> l2(QPointSub(pos, cps[i][1]))])

on_mouse_press(cps, button, modifiers, pos, v) ==
    IF button = "LeftButton"
    THEN IF modifiers = "ShiftModifier"
         THEN IF cps # <<>> THEN pop(cps, Closest(cps, pos)) ELSE cps
         ELSE Append(cps, <<ClickToImage(pos, v), NextNum(cps)>>)
    ELSE cps

---------------------------------------------------------------------------
(* Affine transform: AlignAffine2D                                         *)

\* matrices are tuples of rows
RECURSIVE Dot(_, _, _)
Dot(f, g, n) == IF n = 0 THEN 0 ELSE f[n] * g[n] + Dot(f, g, n - 1)

Column(B, j) == [k \in 1 .. Len(B) |-> B[k][j]]
MatMul(A, B) ==
    [i \in 1 .. Len(A) |-> [j \in 1 .. Len(B[1]) |-> Dot(A[i], Column(B, j), Len(B))]]
Transpose(A) == [j \in 1 .. Len(A[1]) |-> Column(A, j)]
MatVec(A, x) == [i \in 1 .. Len(A) |-> Dot(A[i], x, Len(x))]
Identity3 == <<<<1, 0, 0>>, <<0, 1, 0>>, <<0, 0, 1>>>>

\* np.cos / np.sin of np.deg2rad(deg), for the quarter turns the rotation
\* widget is given
Cos(deg) == CASE deg % 360 = 0 -> 1 [] deg % 360 = 180 -> -1 [] OTHER -> 0
Sin(deg) == CASE deg % 360 = 90 -> 1 [] deg % 360 = 270 -> -1 [] OTHER -> 0

\* the values of the seven parameter spin boxes
CurParams ==
    [scale_x |-> scale_x, scale_y |-> scale_y, shear_x |-> shear_x,
     shear_y |-> shear_y, rotation |-> rotation,
     translate_x |-> translate_x, translate_y |-> translate_y]

Shear(p)       == <<<<1, p.shear_x, 0>>, <<p.shear_y, 1, 0>>, <<0, 0, 1>>>>
Rotation(p)    == <<<<Cos(p.rotation), -Sin(p.rotation), 0>>,
                    <<Sin(p.rotation), Cos(p.rotation), 0>>, <<0, 0, 1>>>>
Translation(p) == <<<<1, 0, p.translate_x>>, <<0, 1, p.translate_y>>, <<0, 0, 1>>>>
Scale(p)       == <<<<p.scale_x, 0, 0>>, <<0, p.scale_y, 0>>, <<0, 0, 1>>>>

\* the four factors multiplied in the opposite order
Compose_reversed(p) ==
    MatMul(MatMul(MatMul(Translation(p), Rotation(p)), Scale(p)), Shear(p))
\* T = Shear @ Scale @ Rotation @ Translation of update_transformation
Compose(p) == MatMul(MatMul(MatMul(Shear(p), Scale(p)), Rotation(p)), Translation(p))

\* a matrix of rationals: integer numerators over one positive denominator,
\* in lowest terms
RECURSIVE GCDAll(_)
GCDAll(s) == IF s = <<>> THEN 0 ELSE GCD(Head(s), GCDAll(Tail(s)))
Flatten(A) == [k \in 1 .. (Len(A) * Len(A[1])) |->
                  A[((k - 1) \div Len(A[1])) + 1][((k - 1) % Len(A[1])) + 1]]
Rational(num, den) ==
    LET g == GCD(den, GCDAll(Flatten(num)))
    IN  [num |-> [i \in 1 .. Len(num) |-> [j \in 1 .. Len(num[1]) |-> num[i][j] \div g]],
         den |-> den \div g]

\* determinant, adjugate, trace and sum of the principal 2 x 2 minors of a
\* symmetric 3 x 3 matrix
Minor(G, i, j, k, l) == G[i][k] * G[j][l] - G[i][l] * G[j][k]
Det3(G) ==   G[1][1] * Minor(G, 2, 3, 2, 3)
           - G[1][2] * Minor(G, 2, 3, 1, 3)
           + G[1][3] * Minor(G, 2, 3, 1, 2)
Adj3(G) ==
    <<<< Minor(G, 2, 3, 2, 3), -Minor(G, 1, 3, 2, 3),  Minor(G, 1, 2, 2, 3)>>,
      <<-Minor(G, 2, 3, 1, 3),  Minor(G, 1, 3, 1, 3), -Minor(G, 1, 2, 1, 3)>>,
      << Minor(G, 2, 3, 1, 2), -Minor(G, 1, 3, 1, 2),  Minor(G, 1, 2, 1, 2)>>>>
Trace3(G) == G[1][1] + G[2][2] + G[3][3]
Minors3(G) == Minor(G, 1, 2, 1, 2) + Minor(G, 1, 3, 1, 3) + Minor(G, 2, 3, 2, 3)

\* np.linalg.lstsq(a, b, rcond=None)[0] for lists of rows [x, y, 1]: the
\* least-squares solution X of a X = b of least norm, pinv(a) b.  With
\* G = a^T a: pinv(a) is G^-1 a^T when G has rank 3, (tr(G) I - G) a^T / c1
\* when it has rank 2 (c1 the sum of its principal minors) and a^T / tr(G)
\* when it has rank 1.  LinAlgError is raised when a is empty (not
\* two-dimensional) or when a and b differ in their number of rows.
lstsq(a, b) ==
    IF a = <<>> \/ Len(a) # Len(b)
    THEN [raised |-> TRUE, X |-> Rational(Identity3, 1)]
    ELSE LET At  == Transpose(a)
             G   == MatMul(At, a)
             AtB == MatMul(At, b)
             c0  == Det3(G)
             c1  == Minors3(G)
             c2  == Trace3(G)
             cI  == [i \in 1 .. 3 |-> [j \in 1 .. 3 |->
                        (IF i = j THEN c2 ELSE 0) - G[i][j]]]
         IN  [raised |-> FALSE,
              X |-> IF c0 # 0 THEN Rational(MatMul(Adj3(G), AtB), c0)
                    ELSE IF c1 # 0 THEN Rational(MatMul(cI, AtB), c1)
                    ELSE Rational(AtB, c2)]

\* [[pos.x(), pos.y(), 1] for pos, name in control_points]
Homogeneous(cps) == [i \in 1 .. Len(cps) |-> <<cps[i][1][1], cps[i][1][2], 1>>]

\* f'{x:2f}' for x = n / d, d > 0: six decimals, as the number of millionths
RECURSIVE Decimals(_, _, _)
Decimals(r, d, k) ==
    IF k = 0 THEN (IF 2 * r >= d THEN 1 ELSE 0)
    ELSE ((10 * r) \div d) * (10 ^ (k - 1)) + Decimals((10 * r) % d, d, k - 1)
Format2f(n, d) ==
    LET m == abs(n)
        v == (m \div d) * 1000000 + Decimals(m % d, d, 6)
    IN  <<6, IF n < 0 THEN -v ELSE v>>

\* the nine items of transformation_matrix_table set in create_components;
\* an item is <<number of decimals, digits>>: '1.0' is <<1, 10>>
InitTable ==
    <<<<<<1, 10>>, <<1, 0>>, <<1, 0>>>>,
      <<<<1, 0>>, <<1, 10>>, <<1, 0>>>>,
      <<<<1, 0>>, <<1, 0>>, <<1, 10>>>>>>

\* number of arrays stacked into the overlay
OverlayChannels == 3

\* an image is described by the warp that made it from the moving image (no
\* warp: the moving image itself) and by its shape <<rows, columns>>
Unwarped(H, W) == [warp |-> <<>>, shape |-> <<H, W>>]

\* cv2.warpAffine(self.moving, T[:2,:], self.fixed.shape): dsize is
\* (width, height), the result has dsize[1] rows and dsize[0] columns
warpAffine(T, dsize) ==
    [warp |-> <<Rational(SubSeq(T.num, 1, 2), T.den)>>,
     shape |-> <<dsize[2], dsize[1]>>]

\* the position, as <<numerators, denominator>>, of the source pixel that
\* cv2.warpAffine(src, M, dsize), called without WARP_INVERSE_MAP, shows at
\* position p of its result: dst(p) = src(M^-1 p), M being the map from the
\* source to the result; for a singular M the inverse used is the zero map
WarpSource(img, p) ==
    LET N == img.warp[1].num
        d == img.warp[1].den
        D == N[1][1] * N[2][2] - N[1][2] * N[2][1]
        u == d * p[1] - N[1][3]
        v == d * p[2] - N[2][3]
        x == N[2][2] * u - N[1][2] * v
        y == N[1][1] * v - N[2][1] * u
        g == GCD(D, GCD(x, abs(y)))
        sgn == IF D < 0 THEN -1 ELSE 1
    IN  IF img.warp = <<>> THEN <<p, 1>>
        ELSE IF D = 0 THEN <<<<0, 0>>, 1>>
        ELSE <<<<sgn * (x \div g), sgn * (y \div g)>>, sgn * (D \div g)>>

\* np.dstack((self.fixed, self.moving_transformed, np.zeros_like(self.fixed)))
dstack(mt) == [red |-> "fixed", green |-> mt, blue |-> "zeros"]

\* the transform part of an AlignAffine2D as one value; raised names the
\* exception the handler ended with
CurAlign ==
    [table |-> table, moving_transformed |-> moving_transformed,
     overlay |-> overlay, tone |-> Cur, raised |-> "none"]

\* update_overlay(T) for a fixed image of H rows and W columns.  The overlay
\* bound again by overlay_label.set_image has the shape (H, W, 3) of the one
\* bound before: num_channels and image keep their values
update_overlay(s, T, H, W) ==
    LET mt == warpAffine(T, <<H, W>>)
        s1 == [s EXCEPT !.moving_transformed = mt]
    IN  IF mt.shape # <<H, W>>
        THEN [s1 EXCEPT !.raised = "ValueError"]
        ELSE [s1 EXCEPT !.overlay = dstack(mt),
                        !.tone = reset_transform(s.tone, OverlayChannels)]

update_transformation(s, p, H, W) ==
    update_overlay(s, Rational(Compose(p), 1), H, W)

\* the body of align_control_points once lstsq returned or raised r
AlignWith(s, r, H, W) ==
    LET T == [num |-> Transpose(r.X.num), den |-> r.X.den]
        s1 == [s EXCEPT !.table =
                  [i \in 1 .. 3 |-> [j \in 1 .. 3 |-> Format2f(T.num[i][j], T.den)]]]
    IN  IF r.raised
        THEN [s EXCEPT !.raised = "LinAlgError"]
        ELSE update_overlay(s1, T, H, W)

\* pairing the points as zip does, the longer list cut to the shorter
align_control_points_zipped(s, fixed, moving, H, W) ==
    LET n == Minimum(Len(fixed), Len(moving))
    IN  AlignWith(s, lstsq(Homogeneous(SubSeq(fixed, 1, n)),
                           Homogeneous(SubSeq(moving, 1, n))), H, W)
align_control_points(s, fixed, moving, H, W) ==
    AlignWith(s, lstsq(Homogeneous(fixed), Homogeneous(moving)), H, W)

AlignBecomes(s) ==
    /\ table' = s.table
    /\ moving_transformed' = s.moving_transformed
    /\ overlay' = s.overlay
    /\ ToneBecomes(s.tone)

---------------------------------------------------------------------------
(* Initial states                                                          *)

ToneInit(nc) ==
    /\ num_channels = nc
    /\ state = DefaultState(nc)
    /\ contrast = Unit
    /\ brightness = 0
    /\ gamma = Unit
    /\ min = 0
    /\ max = Unit
    /\ channel = 0

\* set_image(image) of __init__ for an image of H rows, W columns and nc
\* channels
ImageInit(H, W, nc) ==
    /\ image = <<H, W, nc>>
    /\ image_transformed = <<H, W, nc>>

ViewInit(H, W) ==
    /\ im_height = H
    /\ im_width = W
    /\ zoom = InitView(H, W).zoom
    /\ bottomleft = InitView(H, W).bottomleft
    /\ topright = InitView(H, W).topright
    /\ center = InitView(H, W).center

CPInit ==
    /\ control_points = <<>>
    /\ removed = {}

ParamInit ==
    /\ scale_x = 1
    /\ scale_y = 1
    /\ shear_x = 0
    /\ shear_y = 0
    /\ rotation = 0
    /\ translate_x = 0
    /\ translate_y = 0

AlignInit(H, W) ==
    /\ fixed_points = <<>>
    /\ moving_points = <<>>
    /\ table = InitTable
    /\ moving_transformed = Unwarped(H, W)
    /\ overlay = dstack(Unwarped(H, W))

EvInit == ev = Event("init", <<>>, "none")

ImSides == {SmallSide, LargeSide}

---------------------------------------------------------------------------
(* Tone specification: one ImageControl, its widgets edited by the user    *)

ToneEvent(g, op, a) ==
    /\ ToneBecomes(g)
    /\ ev' = Event(op, a, "none")
    /\ UNCHANGED <<imageVars, viewVars, cpVars, paramVars, alignVars>>

UserContrast ==
    \E v \in ContrastVals : v # contrast
        /\ ToneEvent(contrast_setValue(Cur, v), "contrast", <<>>)
UserBrightness ==
    \E v \in BrightnessVals : v # brightness
        /\ ToneEvent(brightness_setValue(Cur, v), "brightness", <<>>)
UserGamma ==
    \E v \in GammaVals : v # gamma
        /\ ToneEvent(gamma_setValue(Cur, v), "gamma", <<>>)
UserMin ==
    \E v \in Levels : v # min
        /\ ToneEvent(min_setValue(Cur, v), "min", <<v>>)
UserMax ==
    \E v \in Levels : v # max
        /\ ToneEvent(max_setValue(Cur, v), "max", <<v>>)
UserChannel ==
    \E c \in Channels(num_channels) : c # channel
        /\ ToneEvent(channel_setValue(Cur, c), "channel", <<>>)
AutoScale ==
    \E m \in Levels, M \in Levels : m <= M
        /\ ToneEvent(auto_scale(Cur, m, M), "auto", <<>>)
\* the event records whether any channel held an edited tuple
ResetTransform ==
    ToneEvent(reset_transform(Cur, num_channels), "reset",
              <<IF state = DefaultState(num_channels) THEN "clean" ELSE "edited">>)

InitTone ==
    /\ \E nc \in 1 .. MaxChannels : ToneInit(nc) /\ ImageInit(SmallSide, SmallSide, nc)
    /\ ViewInit(SmallSide, SmallSide)
    /\ CPInit /\ ParamInit /\ AlignInit(SmallSide, SmallSide) /\ EvInit

NextTone ==
    \/ UserContrast \/ UserBrightness \/ UserGamma \/ UserMin \/ UserMax
    \/ UserChannel \/ AutoScale \/ ResetTransform

SpecTone == InitTone /\ [][NextTone]_vars

\* C1: for every channel ch, state['min'][ch] < state['max'][ch] in every
\* reachable state of the ImageControl
MinBelowMax ==
    \A ch \in Channels(num_channels) : state.min[ch] < state.max[ch]

\* C2: a max edit to a value <= the current min, or a min edit to a value >=
\* the current max, leaves the state of the selected channel and the five
\* parameter widgets as they were before the edit
RejectedEditRestores ==
    [][ (\/ ev'.op = "max" /\ ev'.arg[1] <= min
         \/ ev'.op = "min" /\ ev'.arg[1] >= max)
        => /\ min' = min /\ max' = max
           /\ contrast' = contrast /\ brightness' = brightness /\ gamma' = gamma
           /\ state' = state ]_vars

\* a max edit below the current min has just been handled
RejectedEditSeen ==
    /\ ev.op = "max"
    /\ ev.arg[1] <= min
    /\ ev.arg[1] # max

\* the stored tuple of channel ch is the default one
IsDefault(st, ch) ==
    /\ st.contrast[ch] = Unit
    /\ st.brightness[ch] = 0
    /\ st.gamma[ch] = Unit
    /\ st.min[ch] = 0
    /\ st.max[ch] = Unit

\* C14: for a channel whose stored tuple is the default (contrast 1,
\* brightness 0, gamma 1, min 0, max 1) the transform of update_histogram
\* maps every sample value x in [0, 1] to x
DefaultToneIsIdentity ==
    \A ch \in Channels(num_channels) :
        IsDefault(state, ch) =>
            \A k \in 0 .. SampleSteps : Transformed(state, ch, k) = Frac(k, SampleSteps)

\* update_histogram has re-applied the transform to a default channel after
\* the contrast of another channel was edited
DefaultChannelRedrawn ==
    /\ ev.op = "contrast"
    /\ ~ IsDefault(state, channel)
    /\ \E ch \in Channels(num_channels) : IsDefault(state, ch)

\* C16: after reset_transform every channel, selected or not, holds the
\* default tuple and the five parameter widgets show the defaults
ResetRestoresDefaults ==
    ev.op = "reset" =>
        /\ state = DefaultState(num_channels)
        /\ contrast = Unit /\ brightness = 0 /\ gamma = Unit
        /\ min = 0 /\ max = Unit

\* a reset was run with a channel other than the first selected, after edits
ResetAfterEdits ==
    /\ ev.op = "reset"
    /\ ev.arg = <<"edited">>
    /\ channel # 0

\* the stored tuple of channel ch
Tuple(st, ch) ==
    <<st.contrast[ch], st.brightness[ch], st.gamma[ch], st.min[ch], st.max[ch]>>

\* C19: a switch of the selected channel changes no channel's stored tuple,
\* and an edit of a parameter widget changes at most the tuple of the
\* selected channel
ChannelsIndependent ==
    [][ /\ ev'.op = "channel" =>
             \A ch \in Channels(num_channels) : Tuple(state', ch) = Tuple(state, ch)
        /\ ev'.op \in {"contrast", "brightness", "gamma", "min", "max"} =>
             \A ch \in Channels(num_channels) \ {channel} :
                 Tuple(state', ch) = Tuple(state, ch) ]_vars

---------------------------------------------------------------------------
(* Image specification: set_image called on a constructed ImageControl     *)

\* largest length of the third axis of the arrays given to set_image
MaxImageChannels == 4

\* shapes of the arrays given to set_image: one to four axes
Shapes ==
    {<<H>> : H \in ImSides}
    \cup {<<H, W>> : H \in ImSides, W \in ImSides}
    \cup {<<H, W, c>> : H \in ImSides, W \in ImSides, c \in 1 .. MaxImageChannels}
    \cup {<<H, W, c, 1>> : H \in ImSides, W \in ImSides, c \in 1 .. MaxImageChannels}

SetImage ==
    \E shape \in Shapes :
        LET im == set_image(CurImage, shape)
        IN  /\ num_channels' = im.num_channels
            /\ image' = im.image
            /\ image_transformed' = im.image_transformed
            /\ ev' = Event("set_image", shape, im.raised)
            /\ UNCHANGED <<state, contrast, brightness, gamma, min, max, channel>>
            /\ UNCHANGED <<viewVars, cpVars, paramVars, alignVars>>

InitImage ==
    /\ ToneInit(1) /\ ImageInit(SmallSide, SmallSide, 1) /\ ViewInit(SmallSide, SmallSide)
    /\ CPInit /\ ParamInit /\ AlignInit(SmallSide, SmallSide) /\ EvInit

NextImage == SetImage

SpecImage == InitImage /\ [][NextImage]_vars

\* C15: set_image raises and leaves image, image_transformed and
\* num_channels unchanged for every array of more than 3 axes; every array
\* it accepts is bound with num_channels in {1, 2, 3}; an array of 2 axes is
\* accepted and bound with num_channels = 1
AcceptsAtMostThreeChannels ==
    [][ ev'.op = "set_image" =>
          /\ Len(ev'.arg) > 3 =>
                /\ ev'.result # "none"
                /\ UNCHANGED <<image, image_transformed, num_channels>>
          /\ ev'.result = "none" => num_channels' \in {1, 2, 3}
          /\ Len(ev'.arg) = 2 => (ev'.result = "none" /\ num_channels' = 1) ]_vars

---------------------------------------------------------------------------
(* Viewport specification: one ImageControl, wheel and mouse-move events   *)

\* angleDelta().y() of the wheel events
Deltas == {-240, -120, 0, 120, 240}

\* mouse positions of the move events: both edges and the middle
Positions(H, W) == {0, W \div 2, W} \X {0, H \div 2, H}

Wheel ==
    \E delta \in Deltas :
        /\ NewZoom(zoom, delta) <= MaxZoom
        /\ ViewBecomes(on_mouse_wheel(CurView, delta, im_height, im_width))
        /\ ev' = Event("wheel", <<delta>>, "none")
        /\ UNCHANGED <<toneVars, imageVars, cpVars, paramVars, alignVars>>

MouseMove ==
    \E buttons \in {"RightButton", "NoButton"}, pos \in Positions(im_height, im_width) :
        /\ ViewBecomes(on_mouse_move(CurView, buttons, pos, im_height, im_width))
        /\ ev' = Event(IF buttons = "RightButton" THEN "pan" ELSE "move", <<>>, "none")
        /\ UNCHANGED <<toneVars, imageVars, cpVars, paramVars, alignVars>>

InitViewport ==
    /\ \E H \in ImSides, W \in ImSides : ViewInit(H, W) /\ ImageInit(H, W, 1)
    /\ ToneInit(1) /\ CPInit /\ ParamInit /\ AlignInit(SmallSide, SmallSide) /\ EvInit

NextViewport == Wheel \/ MouseMove

SpecViewport == InitViewport /\ [][NextViewport]_vars

\* C8: every integer image point inside the current window, painted at
\* (p - bottomleft) * zoom and read back as on a click, d / zoom + bottomleft,
\* is p again
RoundTrip ==
    \A x \in bottomleft[1] .. topright[1], y \in bottomleft[2] .. topright[2] :
        ClickToImage(ImageToDisplay(<<x, y>>, CurView), CurView) = <<x, y>>

\* the window has been zoomed and moved away from the origin
ZoomedAndPanned ==
    /\ ev.op \in {"wheel", "pan"}
    /\ zoom > ZoomScale
    /\ bottomleft[1] > 0
    /\ bottomleft[2] > 0
    /\ topright[1] > bottomleft[1]

\* C9: zoom >= 1.0 in every reachable state; a wheel event moves the zoom by
\* one step up for a positive delta, one step down for a negative delta,
\* floored at 1.0, and leaves it unchanged for delta 0
ZoomAtLeastOne ==
    [][ /\ zoom >= ZoomScale
        /\ zoom' >= ZoomScale
        /\ ev'.op = "wheel" =>
             LET delta == ev'.arg[1] IN
             /\ delta > 0 => zoom' = zoom + 1
             /\ delta < 0 => zoom' = (IF zoom - 1 < ZoomScale THEN ZoomScale ELSE zoom - 1)
             /\ delta = 0 => zoom' = zoom ]_vars

\* a wheel event down was handled at zoom 1.0
WheelDownAtOne ==
    /\ ev.op = "wheel"
    /\ ev.arg[1] < 0
    /\ zoom = ZoomScale

\* C10: the window lies inside [0, W] x [0, H] and its size is
\* (W / zoom, H / zoom) up to one pixel
WindowInsideImage ==
    /\ 0 <= bottomleft[1] /\ bottomleft[1] <= topright[1] /\ topright[1] <= im_width
    /\ 0 <= bottomleft[2] /\ bottomleft[2] <= topright[2] /\ topright[2] <= im_height
    /\ abs(zoom * (topright[1] - bottomleft[1]) - ZoomScale * im_width) <= zoom
    /\ abs(zoom * (topright[2] - bottomleft[2]) - ZoomScale * im_height) <= zoom

\* C11: whenever zoom = 1.0 the window is the full image, bottomleft = (0, 0)
\* and topright = (x = W, y = H), and a pan event handled at zoom 1.0 leaves
\* bottomleft, topright and center unchanged
FullWindowAtZoomOne ==
    [][ /\ zoom = ZoomScale =>
             bottomleft = <<0, 0>> /\ topright = <<im_width, im_height>>
        /\ zoom' = ZoomScale =>
             bottomleft' = <<0, 0>> /\ topright' = <<im_width, im_height>>
        /\ (zoom = ZoomScale /\ ev'.op = "pan") =>
             /\ bottomleft' = bottomleft
             /\ topright' = topright
             /\ center' = center ]_vars

\* int(center * zoom - extent / 2) of on_mouse_wheel, in tenths, lies
\* strictly between the bounds 0 and extent * zoom - extent of its np.clip
Unclamped(c, z, extent) ==
    LET origin == ZoomScale * int(2 * c * z - ZoomScale * extent, 2 * ZoomScale)
    IN  0 < origin /\ origin < extent * z - ZoomScale * extent

\* C18: a wheel event whose recomputed window origin is not clamped leaves
\* the stored centre of the window where it was
ZoomKeepsCentre ==
    [][ (/\ ev'.op = "wheel"
         /\ Unclamped(center[1], zoom', im_width)
         /\ Unclamped(center[2], zoom', im_height))
        => center' = center ]_vars

---------------------------------------------------------------------------
(* Control point specification: one ImageControlCP, clicked, zoomed and    *)
(* panned                                                                  *)

\* largest zoom (in tenths) of the control point specification
MaxZoomCP == 11

\* display position of the clicks; the stored positions differ with the zoom
\* and the pan the click is made under
Clicks == {<<8, 8>>}

Labels(cps) == {cps[i][2] : i \in 1 .. Len(cps)}

MousePress ==
    \E button \in {"LeftButton", "RightButton"},
       modifiers \in {"NoModifier", "ShiftModifier"}, pos \in Clicks :
        LET cps == on_mouse_press(control_points, button, modifiers, pos, CurView)
            op  == IF button # "LeftButton" THEN "press"
                   ELSE IF modifiers = "ShiftModifier" THEN "remove" ELSE "add"
        IN  /\ op = "add" => /\ Len(control_points) < MaxPoints
                             /\ NextNum(control_points) <= MaxId
            /\ control_points' = cps
            /\ removed' = removed \cup (Labels(control_points) \ Labels(cps))
            /\ ev' = Event(op, pos, "none")
            /\ UNCHANGED <<toneVars, imageVars, viewVars, paramVars, alignVars>>

\* the wheel turned one notch, the mouse dragged to a corner
WheelCP ==
    \E delta \in {-120, 120} :
        /\ NewZoom(zoom, delta) <= MaxZoomCP
        /\ ViewBecomes(on_mouse_wheel(CurView, delta, im_height, im_width))
        /\ ev' = Event("view", <<>>, "none")
        /\ UNCHANGED <<toneVars, imageVars, cpVars, paramVars, alignVars>>

MouseMoveCP ==
    \E pos \in {<<0, 0>>, <<im_width, im_height>>} :
        /\ ViewBecomes(on_mouse_move(CurView, "RightButton", pos, im_height, im_width))
        /\ ev' = Event("view", <<>>, "none")
        /\ UNCHANGED <<toneVars, imageVars, cpVars, paramVars, alignVars>>

InitCP ==
    /\ ViewInit(LargeSide, LargeSide) /\ ImageInit(LargeSide, LargeSide, 1)
    /\ ToneInit(1) /\ CPInit /\ ParamInit /\ AlignInit(LargeSide, LargeSide) /\ EvInit

NextCP == WheelCP \/ MouseMoveCP \/ MousePress

SpecCP == InitCP /\ [][NextCP]_vars

\* C3: points added to an empty store get the ids 0, 1, 2, ..., and an id
\* that was removed is never the id of a point added later
RemovedIdNeverReused ==
    /\ removed = {} => \A i \in 1 .. Len(control_points) : control_points[i][2] = i - 1
    /\ \A i \in 1 .. Len(control_points) : control_points[i][2] \notin removed

\* C7: a shift + left click at display position q removes exactly the stored
\* point nearest to q / zoom + bottomleft, the earliest one on a tie, and
\* leaves an empty store as it is
RemovesNearestInImageSpace ==
    [][ ev'.op = "remove" =>
          LET q == ClickToImage(ev'.arg, CurView)
              d == [i \in 1 .. Len(control_points) |->
                       l2(QPointSub(q, control_points[i][1]))]
          IN  control_points' =
                 IF control_points = <<>> THEN <<>>
                 ELSE pop(control_points, argmin(d)) ]_vars

\* C20: the ids of control_points are pairwise distinct and strictly
\* increasing along the list
IdsIncreaseAlongList ==
    \A i \in 1 .. Len(control_points), j \in 1 .. Len(control_points) :
        i < j => control_points[i][2] < control_points[j][2]

\* a point was added to a store that a point other than the last had been
\* removed from
AddedAfterRemoval ==
    /\ ev.op = "add"
    /\ Len(control_points) >= 2
    /\ \E i \in 1 .. Len(control_points) :
          /\ control_points[i][2] # i - 1
          /\ \E k \in removed : k < control_points[i][2]

---------------------------------------------------------------------------
(* Parameter specification: an AlignAffine2D whose seven spin boxes are    *)
(* edited; every edit runs update_transformation                           *)

ScaleVals     == {1, 2}
ShearVals     == {0, 1}
RotationVals  == {0, 90}
TranslateVals == {0, 5}

AlignEvent(s, op) ==
    /\ AlignBecomes(s)
    /\ ev' = Event(op, <<>>, s.raised)
    /\ UNCHANGED <<imageVars, viewVars, cpVars, fixed_points, moving_points>>

ParamEdited(p) ==
    /\ p # CurParams
    /\ scale_x' = p.scale_x
    /\ scale_y' = p.scale_y
    /\ shear_x' = p.shear_x
    /\ shear_y' = p.shear_y
    /\ rotation' = p.rotation
    /\ translate_x' = p.translate_x
    /\ translate_y' = p.translate_y
    /\ AlignEvent(update_transformation(CurAlign, p, im_height, im_width),
                  "update_transformation")

SetScaleX     == \E v \in ScaleVals : ParamEdited([CurParams EXCEPT !.scale_x = v])
SetScaleY     == \E v \in ScaleVals : ParamEdited([CurParams EXCEPT !.scale_y = v])
SetShearX     == \E v \in ShearVals : ParamEdited([CurParams EXCEPT !.shear_x = v])
SetShearY     == \E v \in ShearVals : ParamEdited([CurParams EXCEPT !.shear_y = v])
SetRotation   == \E v \in RotationVals : ParamEdited([CurParams EXCEPT !.rotation = v])
SetTranslateX == \E v \in TranslateVals : ParamEdited([CurParams EXCEPT !.translate_x = v])
SetTranslateY == \E v \in TranslateVals : ParamEdited([CurParams EXCEPT !.translate_y = v])

InitAlign ==
    /\ \E H \in ImSides, W \in ImSides :
          ViewInit(H, W) /\ AlignInit(H, W) /\ ImageInit(H, W, OverlayChannels)
    /\ ToneInit(OverlayChannels) /\ CPInit /\ ParamInit /\ EvInit

NextParam ==
    \/ SetScaleX \/ SetScaleY \/ SetShearX \/ SetShearY
    \/ SetRotation \/ SetTranslateX \/ SetTranslateY

SpecParam == InitAlign /\ [][NextParam]_vars

\* the parameters of the composition example
ExampleParams ==
    [scale_x |-> 2, scale_y |-> 1, shear_x |-> 0, shear_y |-> 0,
     rotation |-> 0, translate_x |-> 5, translate_y |-> 0]

\* the image of the point (1, 0) under the warp matrix last applied
WarpOfExamplePoint ==
    LET M == moving_transformed.warp[1]
    IN  <<M.den, MatVec(M.num, <<1, 0, 1>>)>>

\* C4 as stated: with the example parameters update_transformation builds
\* and applies a T that maps (1, 0, 1) to (7, 0, 1)
ExampleMapsToSeven ==
    (ev.op = "update_transformation" /\ CurParams = ExampleParams) =>
        /\ MatVec(Compose(CurParams), <<1, 0, 1>>) = <<7, 0, 1>>
        /\ WarpOfExamplePoint = <<1, <<7, 0>>>>

\* C4 amended: with the example parameters update_transformation builds and
\* applies a T that maps (1, 0, 1) to (12, 0, 1): the translation is applied
\* to the point before the scaling
ExampleMapsToTwelve ==
    (ev.op = "update_transformation" /\ CurParams = ExampleParams) =>
        /\ MatVec(Compose(CurParams), <<1, 0, 1>>) = <<12, 0, 1>>
        /\ WarpOfExamplePoint = <<1, <<12, 0>>>>

\* update_transformation has run with the example parameters
ExampleApplied ==
    /\ ev.op = "update_transformation"
    /\ CurParams = ExampleParams

\* C12: after update_overlay the warped moving image has H rows and W
\* columns, the extent of the fixed image, and the stacking into the overlay
\* has succeeded
WarpHasFixedExtent ==
    ev.op = "update_transformation" =>
        /\ moving_transformed.shape = <<im_height, im_width>>
        /\ ev.result = "none"
        /\ overlay = dstack(moving_transformed)

---------------------------------------------------------------------------
(* Alignment specification: an AlignAffine2D whose two images are clicked  *)
(* (both viewports as constructed) and aligned by their control points     *)

FixedClicks  == {<<0, 0>>, <<1, 0>>, <<0, 1>>}
MovingClicks == {<<1, 0>>, <<2, 0>>, <<1, 1>>}

PressEvent ==
    /\ ev' = Event("press", <<>>, "none")
    /\ UNCHANGED <<toneVars, imageVars, viewVars, cpVars, paramVars,
                 table, moving_transformed, overlay>>

FixedPress ==
    \E pos \in FixedClicks :
        /\ Len(fixed_points) < MaxPoints
        /\ fixed_points' = on_mouse_press(fixed_points, "LeftButton", "NoModifier",
                                          pos, InitView(im_height, im_width))
        /\ UNCHANGED moving_points
        /\ PressEvent

MovingPress ==
    \E pos \in MovingClicks :
        /\ Len(moving_points) < MaxPoints
        /\ moving_points' = on_mouse_press(moving_points, "LeftButton", "NoModifier",
                                           pos, InitView(im_height, im_width))
        /\ UNCHANGED fixed_points
        /\ PressEvent

AlignControlPoints ==
    /\ AlignEvent(align_control_points(CurAlign, fixed_points, moving_points,
                                       im_height, im_width),
                  "align_control_points")
    /\ UNCHANGED paramVars

NextAlign == FixedPress \/ MovingPress \/ AlignControlPoints

SpecAlign == InitAlign /\ [][NextAlign]_vars

TransformKept ==
    /\ table' = table
    /\ moving_transformed' = moving_transformed
    /\ overlay' = overlay

\* C5: align_control_points with fewer than 3 points in each store ends in
\* a failure and keeps the table, moving_transformed and overlay
TooFewPointsRejected ==
    [][ (/\ ev'.op = "align_control_points"
         /\ Len(fixed_points) < 3
         /\ Len(moving_points) < 3)
        => (ev'.result # "none" /\ TransformKept) ]_vars

\* C6: align_control_points with stores of different lengths ends in a
\* failure raised to the caller and keeps the table, moving_transformed and
\* overlay
MismatchedCountRejected ==
    [][ (/\ ev'.op = "align_control_points"
         /\ Len(fixed_points) # Len(moving_points))
        => (ev'.result = "LinAlgError" /\ TransformKept) ]_vars

\* a mismatched alignment was attempted after a transform had been accepted
MismatchAfterAlignment ==
    /\ ev.op = "align_control_points"
    /\ ev.result = "LinAlgError"
    /\ Len(fixed_points) # Len(moving_points)
    /\ fixed_points # <<>>
    /\ moving_points # <<>>
    /\ table # InitTable

\* the stores hold n >= 3 pairs, not all on one line, every moving point
\* being its fixed point moved by one offset d
ExactlyConsistent(fixed, moving) ==
    /\ Len(fixed) >= 3
    /\ Len(moving) = Len(fixed)
    /\ Det3(MatMul(Transpose(Homogeneous(fixed)), Homogeneous(fixed))) # 0
    /\ \A i \in 1 .. Len(fixed) :
          QPointSub(moving[i][1], fixed[i][1]) = QPointSub(moving[1][1], fixed[1][1])

\* C13: after align_control_points on exactly consistent control points, the
\* warped moving image shows at every fixed control point the moving-image
\* pixel of the paired moving control point
PairedLandmarksCoincide ==
    (/\ ev.op = "align_control_points"
     /\ ev.result = "none"
     /\ ExactlyConsistent(fixed_points, moving_points))
    => \A i \in 1 .. Len(fixed_points) :
          WarpSource(moving_transformed, fixed_points[i][1]) = <<moving_points[i][1], 1>>

\* C17: an update_transformation or align_control_points that ends in a
\* failure leaves the table, moving_transformed and overlay as they were
\* before the call
FailedUpdateIsAtomic ==
    [][ (/\ ev'.op \in {"update_transformation", "align_control_points"}
         /\ ev'.result # "none")
        => TransformKept ]_vars

=============================================================================
